---- MODULE Spec2Model ----
\* A model of the request-processing kernel of the HTTP server:
\*   * http::db::DbConnectionPool (HttpServer/code/utils/DbConnectionPool.cpp):
\*     init, getConnection, the lease deleter and the checkConnections thread;
\*   * http::HttpContext::parseRequest / processRequestLine (the incremental
\*     request parser).
\* The pool is checked under Spec (safety) and LiveSpec (fairness); the parser
\* under ParserSpec.
EXTENDS Integers, Sequences, FiniteSets, TLC

\* ---------------------------------------------------------------- bounds
\* Largest poolSize an init call passes.
MaxPoolSize == 1
\* Number of getConnection calls each worker makes under LiveSpec.
MaxCalls == 1

\* The threads: three workers that call getConnection and drop their leases
\* (with the pool sizes above, callers always outnumber the connections, and
\* two can wait while the third holds a lease), the checker thread the
\* constructor starts, and two threads that call init.
Workers == {1, 2, 3}
Checker == Cardinality(Workers) + 1
InitCallers == {Checker + 1, Checker + 2}
Threads == Workers \cup {Checker} \cup InitCallers

\* The (host, user, password, database) arguments init calls are made with.
Credentials ==
    { [host |-> "h1", user |-> "u1", password |-> "p1", database |-> "d1"],
      [host |-> "h2", user |-> "u2", password |-> "p2", database |-> "d2"] }

\* The argument lists of init: credentials and poolSize.
InitArgs ==
    { [cred |-> c, poolSize |-> n] : c \in Credentials, n \in 0 .. MaxPoolSize }

\* host_, user_, password_, database_ before init: empty strings.
NoCredentials ==
    [host |-> "", user |-> "", password |-> "", database |-> ""]

\* A thread that is not in init has no arguments.
NoArgs == [cred |-> NoCredentials, poolSize |-> 0]

VARIABLES
    \* ---- DbConnectionPool members
    mutex_,          \* the set of threads holding mutex_: {} or {t}
    initialized_,    \* bool initialized_
    connections_,    \* std::queue<shared_ptr<DbConnection>>, front first
    config_,         \* host_, user_, password_, database_
    created,         \* the connections createConnection has made
    \* ---- per thread
    pc,              \* where each thread is in its code
    conn,            \* getConnection's local conn: {} (null) or {c}
    lease,           \* the connection of the lease a worker holds: {} or {c}
    result,          \* how the worker's last getConnection call ended
    waited,          \* whether the call, up to its ping, has been in cv_.wait
    budget,          \* getConnection calls a worker still makes (-1: no limit)
    args,            \* the arguments of the init call a thread is in
    connsToCheck,    \* the checker's snapshot, the connections still to check
    \* ---- HttpContext and the connection's input
    state_,          \* HttpContext::state_
    request_,        \* HttpContext::request_
    buf,             \* the readable bytes of the muduo Buffer
    wire,            \* the bytes of the stream not yet delivered
    sent,            \* every byte delivered so far
    running,         \* whether a parseRequest call is in progress
    hasMore,         \* parseRequest's local hasMore
    ok,              \* parseRequest's local ok
    ret,             \* what the last parseRequest call returned
    iters,           \* loop passes of the current parseRequest call
    callLines,       \* the "\r\n" in the buffer when the current call began
    callState,       \* state_ when the call in progress began, else "none"
    failed,          \* whether some parseRequest call has returned false
    cut              \* whether some delivery ended between a CR and its LF

poolVars ==
    << mutex_, initialized_, connections_, config_, created, pc, conn, lease,
       result, waited, budget, args, connsToCheck >>

parserVars ==
    << state_, request_, buf, wire, sent, running, hasMore, ok, ret, iters,
       callLines, callState, failed, cut >>

vars == << poolVars, parserVars >>

\* ============================================================ the pool
Range(q) == { q[i] : i \in 1 .. Len(q) }

\* Mutant of NotifyOne: no notification.
NotifyNone(p) == { p }

\* Mutant of NotifyOne: notify_all, every waiter leaves the wait.
NotifyAll(p) ==
    { [ w \in DOMAIN p |-> IF p[w] = "gc_wait" THEN "gc_relock" ELSE p[w] ] }

\* cv_.notify_one(): one of the threads blocked in cv_.wait, if there is
\* one, leaves the wait (and goes on to take mutex_ again). The result is
\* the set of the pc functions the call may leave.
NotifyOne(p) ==
    LET waiters == { w \in Workers : p[w] = "gc_wait" }
    IN  IF waiters = {} THEN { p }
        ELSE { [p EXCEPT ![w] = "gc_relock"] : w \in waiters }

\* createConnection, called n times: n new connection objects.
createConnection(made, n) ==
    [ i \in 1 .. n |-> Cardinality(made) + i ]

\* Mutant of InitAlreadyDone: init without its guard.
InitNeverDone == FALSE

\* init's test `if (initialized_) return;`.
InitAlreadyDone == initialized_

\* getConnection's loop condition `while (connections_.empty())`.
MustWait == connections_ = <<>>

\* Mutant of NotInitialized: getConnection without the test, so it waits.
NotInitializedIgnored == FALSE

\* getConnection's test `if (!initialized_) throw DbException(...)`.
NotInitialized == ~initialized_

\* Mutant of Pop: front() without pop().
PopKeepsFront(q) == q

\* connections_.pop(): the queue without its front.
Pop(q) == Tail(q)

\* Mutant of ReturnOnRelease: the connection is pushed twice.
ReturnOnReleaseTwice(q, c) == Append(Append(q, c), c)

\* The lease deleter's connections_.push(conn).
ReturnOnRelease(q, c) == Append(q, c)

\* Mutant of ReturnOnError: the catch block rethrows without the push.
ReturnOnErrorLeaks(q, c) == q

\* The catch block's connections_.push(conn).
ReturnOnError(q, c) == Append(q, c)

\* A thread blocked on mutex_ does nothing another thread can see: a call
\* and the lock it begins with are one step, taken when mutex_ is free.

\* ---- init -------------------------------------------------------------
\* A thread calls init(host, user, password, database, poolSize) and takes
\* the lock: std::lock_guard<std::mutex> lock(mutex_).
InitCall(t) ==
    /\ t \in InitCallers
    /\ pc[t] = "idle"
    /\ mutex_ = {}
    /\ mutex_' = {t}
    /\ \E a \in InitArgs : args' = [args EXCEPT ![t] = a]
    /\ pc' = [pc EXCEPT ![t] = "init_body"]
    /\ UNCHANGED << initialized_, connections_, config_, created, conn, lease,
                    result, waited, budget, connsToCheck >>
    /\ UNCHANGED parserVars

\* The body of init under the lock, to its return (which unlocks).
InitBody(t) ==
    /\ t \in InitCallers
    /\ pc[t] = "init_body"
    /\ IF InitAlreadyDone
       THEN UNCHANGED << initialized_, connections_, config_, created >>
       ELSE LET new == createConnection(created, args[t].poolSize)
            IN  /\ config_' = args[t].cred
                /\ connections_' = connections_ \o new
                /\ created' = created \cup Range(new)
                /\ initialized_' = TRUE
    /\ mutex_' = {}
    /\ args' = [args EXCEPT ![t] = NoArgs]
    /\ pc' = [pc EXCEPT ![t] = "idle"]
    /\ UNCHANGED << conn, lease, result, waited, budget, connsToCheck >>
    /\ UNCHANGED parserVars

\* ---- getConnection ----------------------------------------------------
\* A worker that holds no lease calls getConnection and takes the lock:
\* std::unique_lock<std::mutex> lock(mutex_).
GetConnectionCall(t) ==
    /\ t \in Workers
    /\ pc[t] = "idle"
    /\ lease[t] = {}
    /\ budget[t] # 0
    /\ mutex_ = {}
    /\ mutex_' = {t}
    /\ budget' = [budget EXCEPT ![t] = IF @ > 0 THEN @ - 1 ELSE @]
    /\ pc' = [pc EXCEPT ![t] = "gc_loop"]
    /\ result' = [result EXCEPT ![t] = "none"]
    /\ waited' = [waited EXCEPT ![t] = FALSE]
    /\ UNCHANGED << initialized_, connections_, config_, created, conn, lease,
                    args, connsToCheck >>
    /\ UNCHANGED parserVars

\* cv_.wait takes mutex_ again after the thread was woken, and returns.
GcRelock(t) ==
    /\ t \in Workers
    /\ pc[t] = "gc_relock"
    /\ mutex_ = {}
    /\ mutex_' = {t}
    /\ pc' = [pc EXCEPT ![t] = "gc_loop"]
    /\ UNCHANGED << initialized_, connections_, config_, created, conn, lease,
                    result, waited, budget, args, connsToCheck >>
    /\ UNCHANGED parserVars

\* The queue is empty and the pool is not initialized: throw DbException.
\* The unique_lock unlocks as the exception leaves the block.
GcThrowNotInitialized(t) ==
    /\ t \in Workers
    /\ pc[t] = "gc_loop"
    /\ MustWait
    /\ NotInitialized
    /\ mutex_' = {}
    /\ pc' = [pc EXCEPT ![t] = "idle"]
    /\ result' = [result EXCEPT ![t] = "NotInitialized"]
    /\ waited' = [waited EXCEPT ![t] = FALSE]
    /\ UNCHANGED << initialized_, connections_, config_, created, conn, lease,
                    budget, args, connsToCheck >>
    /\ UNCHANGED parserVars

\* The queue is empty: cv_.wait(lock) unlocks mutex_ and blocks.
GcWait(t) ==
    /\ t \in Workers
    /\ pc[t] = "gc_loop"
    /\ MustWait
    /\ ~NotInitialized
    /\ mutex_' = {}
    /\ pc' = [pc EXCEPT ![t] = "gc_wait"]
    /\ waited' = [waited EXCEPT ![t] = TRUE]
    /\ UNCHANGED << initialized_, connections_, config_, created, conn, lease,
                    result, budget, args, connsToCheck >>
    /\ UNCHANGED parserVars

\* cv_.wait may return without a notification.
SpuriousWake(t) ==
    /\ t \in Workers
    /\ pc[t] = "gc_wait"
    /\ pc' = [pc EXCEPT ![t] = "gc_relock"]
    /\ UNCHANGED << mutex_, initialized_, connections_, config_, created, conn,
                    lease, result, waited, budget, args, connsToCheck >>
    /\ UNCHANGED parserVars

\* Mutant of GcPop: the lock's block reaches over the ping, mutex_ stays
\* locked.
GcPopKeepsLock(t) ==
    /\ t \in Workers
    /\ pc[t] = "gc_loop"
    /\ ~MustWait
    /\ conn' = [conn EXCEPT ![t] = {Head(connections_)}]
    /\ connections_' = Pop(connections_)
    /\ pc' = [pc EXCEPT ![t] = "gc_ping"]
    /\ UNCHANGED << mutex_, initialized_, config_, created, lease, result,
                    waited, budget, args, connsToCheck >>
    /\ UNCHANGED parserVars

\* The loop ends: conn = connections_.front(); connections_.pop(); and the
\* block's end unlocks mutex_.
GcPop(t) ==
    /\ t \in Workers
    /\ pc[t] = "gc_loop"
    /\ ~MustWait
    /\ conn' = [conn EXCEPT ![t] = {Head(connections_)}]
    /\ connections_' = Pop(connections_)
    /\ mutex_' = {}
    /\ pc' = [pc EXCEPT ![t] = "gc_ping"]
    /\ UNCHANGED << initialized_, config_, created, lease, result, waited,
                    budget, args, connsToCheck >>
    /\ UNCHANGED parserVars

\* return std::shared_ptr<DbConnection>(conn.get(), deleter): the caller
\* holds the lease, the deleter holds conn.
GcReturnLease(t) ==
    /\ lease' = [lease EXCEPT ![t] = conn[t]]
    /\ conn' = [conn EXCEPT ![t] = {}]
    /\ result' = [result EXCEPT ![t] = "lease"]
    /\ pc' = [pc EXCEPT ![t] = "idle"]
    /\ UNCHANGED mutex_

\* An exception reaches the catch block, which takes the lock:
\* std::lock_guard<std::mutex> lock(mutex_).
GcEnterCatch(t) ==
    /\ mutex_ = {}
    /\ mutex_' = {t}
    /\ pc' = [pc EXCEPT ![t] = "gc_catch"]
    /\ UNCHANGED << conn, lease, result >>

\* conn->ping(), outside the lock: true, false, or an exception.
GcPing(t) ==
    /\ t \in Workers
    /\ pc[t] = "gc_ping"
    /\ \E outcome \in {"true", "false", "throw"} :
         CASE outcome = "true" -> GcReturnLease(t)
           [] outcome = "false" ->
                /\ pc' = [pc EXCEPT ![t] = "gc_reconnect"]
                /\ UNCHANGED << mutex_, conn, lease, result >>
           [] outcome = "throw" -> GcEnterCatch(t)
    /\ waited' = [waited EXCEPT ![t] = FALSE]
    /\ UNCHANGED << initialized_, connections_, config_, created, budget,
                    args, connsToCheck >>
    /\ UNCHANGED parserVars

\* conn->reconnect(), outside the lock: returns, or an exception.
GcReconnect(t) ==
    /\ t \in Workers
    /\ pc[t] = "gc_reconnect"
    /\ \E outcome \in {"ok", "throw"} :
         CASE outcome = "ok" -> GcReturnLease(t)
           [] outcome = "throw" -> GcEnterCatch(t)
    /\ UNCHANGED << initialized_, connections_, config_, created, waited,
                    budget, args, connsToCheck >>
    /\ UNCHANGED parserVars

\* The catch block under the lock: push conn back, notify_one, unlock, and
\* throw the exception on to the caller.
GcCatch(t) ==
    /\ t \in Workers
    /\ pc[t] = "gc_catch"
    /\ \E c \in conn[t] : connections_' = ReturnOnError(connections_, c)
    /\ pc' \in NotifyOne([pc EXCEPT ![t] = "idle"])
    /\ mutex_' = {}
    /\ conn' = [conn EXCEPT ![t] = {}]
    /\ result' = [result EXCEPT ![t] = "IoError"]
    /\ UNCHANGED << initialized_, config_, created, lease, waited, budget,
                    args, connsToCheck >>
    /\ UNCHANGED parserVars

\* ---- the lease's deleter ------------------------------------------------
\* The last reference to a lease goes away: its deleter starts and takes the
\* lock: std::lock_guard<std::mutex> lock(mutex_).
ReleaseCall(t) ==
    /\ t \in Workers
    /\ pc[t] = "idle"
    /\ lease[t] # {}
    /\ mutex_ = {}
    /\ mutex_' = {t}
    /\ pc' = [pc EXCEPT ![t] = "rel_body"]
    /\ UNCHANGED << initialized_, connections_, config_, created, conn, lease,
                    result, waited, budget, args, connsToCheck >>
    /\ UNCHANGED parserVars

\* The deleter under the lock: push conn, notify_one, unlock.
ReleaseBody(t) ==
    /\ t \in Workers
    /\ pc[t] = "rel_body"
    /\ \E c \in lease[t] : connections_' = ReturnOnRelease(connections_, c)
    /\ pc' \in NotifyOne([pc EXCEPT ![t] = "idle"])
    /\ mutex_' = {}
    /\ lease' = [lease EXCEPT ![t] = {}]
    /\ UNCHANGED << initialized_, config_, created, conn, result, waited,
                    budget, args, connsToCheck >>
    /\ UNCHANGED parserVars

\* ---- checkConnections, the checker thread ----------------------------------
\* std::unique_lock<std::mutex> lock(mutex_) at the top of a cycle.
CheckLock ==
    /\ pc[Checker] = "ck_lock"
    /\ mutex_ = {}
    /\ mutex_' = {Checker}
    /\ pc' = [pc EXCEPT ![Checker] = "ck_locked"]
    /\ UNCHANGED << initialized_, connections_, config_, created, conn, lease,
                    result, waited, budget, args, connsToCheck >>
    /\ UNCHANGED parserVars

\* connections_.empty(): the thread enters sleep_for(seconds(1)); the
\* unique_lock is still in scope.
CheckEmpty ==
    /\ pc[Checker] = "ck_locked"
    /\ connections_ = <<>>
    /\ pc' = [pc EXCEPT ![Checker] = "ck_sleep1"]
    /\ UNCHANGED << mutex_, initialized_, connections_, config_, created, conn,
                    lease, result, waited, budget, args, connsToCheck >>
    /\ UNCHANGED parserVars

\* The 1 second sleep ends; `continue` leaves the block, which unlocks.
CheckSleep1End ==
    /\ pc[Checker] = "ck_sleep1"
    /\ mutex_' = mutex_ \ {Checker}
    /\ pc' = [pc EXCEPT ![Checker] = "ck_lock"]
    /\ UNCHANGED << initialized_, connections_, config_, created, conn, lease,
                    result, waited, budget, args, connsToCheck >>
    /\ UNCHANGED parserVars

\* The queue is copied into connsToCheck and the block's end unlocks.
CheckSnapshot ==
    /\ pc[Checker] = "ck_locked"
    /\ connections_ # <<>>
    /\ connsToCheck' = connections_
    /\ mutex_' = mutex_ \ {Checker}
    /\ pc' = [pc EXCEPT ![Checker] = "ck_ping"]
    /\ UNCHANGED << initialized_, connections_, config_, created, conn, lease,
                    result, waited, budget, args >>
    /\ UNCHANGED parserVars

\* The for loop moves to the next connection, or ends and the thread enters
\* sleep_for(seconds(60)).
CheckNext ==
    /\ connsToCheck' = Tail(connsToCheck)
    /\ pc' = [pc EXCEPT ![Checker] =
                IF Tail(connsToCheck) = <<>> THEN "ck_sleep60" ELSE "ck_ping"]

\* Mutant of CheckPing: no outer catch, an exception ends the thread.
CheckPingEscapes ==
    /\ pc[Checker] = "ck_ping"
    /\ \E outcome \in {"true", "false", "throw"} :
         CASE outcome = "true" -> CheckNext
           [] outcome = "false" ->
                /\ pc' = [pc EXCEPT ![Checker] = "ck_reconnect"]
                /\ UNCHANGED connsToCheck
           [] outcome = "throw" ->
                /\ pc' = [pc EXCEPT ![Checker] = "ck_terminated"]
                /\ connsToCheck' = <<>>
    /\ UNCHANGED << mutex_, initialized_, connections_, config_, created, conn,
                    lease, result, waited, budget, args >>
    /\ UNCHANGED parserVars

\* conn->ping() on the snapshot's next connection, outside the lock: true,
\* false, or an exception, which the outer catch takes: the thread enters
\* sleep_for(seconds(5)).
CheckPing ==
    /\ pc[Checker] = "ck_ping"
    /\ \E outcome \in {"true", "false", "throw"} :
         CASE outcome = "true" -> CheckNext
           [] outcome = "false" ->
                /\ pc' = [pc EXCEPT ![Checker] = "ck_reconnect"]
                /\ UNCHANGED connsToCheck
           [] outcome = "throw" ->
                /\ pc' = [pc EXCEPT ![Checker] = "ck_sleep5"]
                /\ connsToCheck' = <<>>
    /\ UNCHANGED << mutex_, initialized_, connections_, config_, created, conn,
                    lease, result, waited, budget, args >>
    /\ UNCHANGED parserVars

\* conn->reconnect(): it returns, or its exception is caught and logged
\* inside the loop; the loop goes on either way.
CheckReconnect ==
    /\ pc[Checker] = "ck_reconnect"
    /\ \E outcome \in {"ok", "throw"} : CheckNext
    /\ UNCHANGED << mutex_, initialized_, connections_, config_, created, conn,
                    lease, result, waited, budget, args >>
    /\ UNCHANGED parserVars

\* The 60 second sleep, or the 5 second sleep, ends: the next cycle.
CheckSleepEnd ==
    /\ pc[Checker] \in {"ck_sleep60", "ck_sleep5"}
    /\ pc' = [pc EXCEPT ![Checker] = "ck_lock"]
    /\ UNCHANGED << mutex_, initialized_, connections_, config_, created, conn,
                    lease, result, waited, budget, args, connsToCheck >>
    /\ UNCHANGED parserVars

\* ---- the pool's specifications ------------------------------------------
\* The pool object after its constructor: nothing initialized, the checker
\* thread started.
PoolInit(b) ==
    /\ mutex_ = {}
    /\ initialized_ = FALSE
    /\ connections_ = <<>>
    /\ config_ = NoCredentials
    /\ created = {}
    /\ pc = [t \in Threads |-> IF t = Checker THEN "ck_lock" ELSE "idle"]
    /\ conn = [t \in Workers |-> {}]
    /\ lease = [t \in Workers |-> {}]
    /\ result = [t \in Workers |-> "none"]
    /\ waited = [t \in Workers |-> FALSE]
    /\ budget = [t \in Workers |-> b]
    /\ args = [t \in InitCallers |-> NoArgs]
    /\ connsToCheck = <<>>

WorkerStep(t) ==
    \/ GetConnectionCall(t)
    \/ GcRelock(t)
    \/ GcThrowNotInitialized(t)
    \/ GcWait(t)
    \/ GcPop(t)
    \/ GcPing(t)
    \/ GcReconnect(t)
    \/ GcCatch(t)
    \/ ReleaseCall(t)
    \/ ReleaseBody(t)

CheckerStep ==
    \/ CheckLock
    \/ CheckEmpty
    \/ CheckSleep1End
    \/ CheckSnapshot
    \/ CheckPing
    \/ CheckReconnect
    \/ CheckSleepEnd

PoolNext ==
    \/ \E t \in InitCallers : InitCall(t) \/ InitBody(t)
    \/ \E t \in Workers : WorkerStep(t)
    \/ \E t \in Workers : SpuriousWake(t)
    \/ CheckerStep

\* ============================================================ the parser
\* Bytes are one-character strings; a string is a sequence of them.
CR == "\r"
LF == "\n"
CRLF == << CR, LF >>

\* The smallest member of a non-empty set of integers.
Min(S) == CHOOSE i \in S : \A j \in S : i <= j

\* std::find(first, last, ch) over b[first .. last - 1]: the first index
\* holding ch, or last.
Find(b, first, last, ch) ==
    LET hits == { i \in first .. (last - 1) : b[i] = ch }
    IN  IF hits = {} THEN last ELSE Min(hits)

\* muduo Buffer::findCRLF: the index of the first "\r\n" in the readable
\* bytes, or 0 (NULL) when there is none.
findCRLF(b) ==
    LET hits == { i \in 1 .. (Len(b) - 1) : b[i] = CR /\ b[i + 1] = LF }
    IN  IF hits = {} THEN 0 ELSE Min(hits)

\* muduo Buffer::retrieveUntil(end) / retrieve(n): the readable bytes from
\* index `next` on.
retrieveUntil(b, next) == SubSeq(b, next, Len(b))

\* The number of "\r\n" in b.
CountCRLF(b) ==
    Cardinality({ i \in 1 .. (Len(b) - 1) : b[i] = CR /\ b[i + 1] = LF })

\* A map string -> string with key k set to v (std::map operator[] =).
MapPut(m, k, v) ==
    [ x \in (DOMAIN m) \cup {k} |-> IF x = k THEN v ELSE m[x] ]

\* HttpRequest as constructed.
NewRequest ==
    [ method |-> "kInvalid", version |-> "Unknown", path |-> <<>>,
      query |-> <<>>, headers |-> <<>>, contentLength |-> 0, body |-> <<>>,
      receiveTime |-> "unset" ]

\* HttpRequest::setMethod: the method a token names, kInvalid for any other.
setMethod(token) ==
    CASE token = << "G", "E", "T" >> -> "kGet"
      [] token = << "P", "O", "S", "T" >> -> "kPost"
      [] token = << "H", "E", "A", "D" >> -> "kHead"
      [] token = << "P", "U", "T" >> -> "kPut"
      [] token = << "D", "E", "L", "E", "T", "E" >> -> "kDelete"
      [] OTHER -> "kInvalid"

\* HttpRequest::setQueryParameters: "k=v&k=v" into the map q; a piece
\* without "=" adds nothing, a repeated key overwrites.
RECURSIVE setQueryParameters(_, _)
setQueryParameters(q, str) ==
    IF str = <<>> THEN q
    ELSE LET amp == Find(str, 1, Len(str) + 1, "&")
             pair == SubSeq(str, 1, amp - 1)
             eq == Find(pair, 1, Len(pair) + 1, "=")
             q1 == IF eq = Len(pair) + 1 THEN q
                   ELSE MapPut(q, SubSeq(pair, 1, eq - 1),
                               SubSeq(pair, eq + 1, Len(pair)))
         IN  setQueryParameters(q1, SubSeq(str, amp + 1, Len(str)))

\* HttpRequest::addHeader(start, colon, end): the name is the bytes before
\* the first colon, the value the bytes after it.
addHeader(req, line, colon) ==
    [ req EXCEPT !.headers =
        MapPut(@, SubSeq(line, 1, colon - 1), SubSeq(line, colon + 1, Len(line))) ]

\* HttpRequest::getHeader: the value, or the empty string for no such header.
getHeader(req, name) ==
    IF name \in DOMAIN req.headers THEN req.headers[name] ELSE <<>>

ContentLengthName ==
    << "C", "o", "n", "t", "e", "n", "t", "-", "L", "e", "n", "g", "t", "h" >>

\* The largest value of HttpRequest's contentLength_, an unsigned integer
\* (the width of the C++ type scaled to the integers TLC has).
ContentLengthMax == 2147483647

\* HttpRequest::setContentLength(length) called with an int: the conversion
\* to the unsigned contentLength_ wraps a negative n around.
setContentLength(req, n) ==
    [ req EXCEPT !.contentLength =
        IF n < 0 THEN (ContentLengthMax + n) + 1 ELSE n ]

Digits == << "0", "1", "2", "3", "4", "5", "6", "7", "8", "9" >>

IsDigit(ch) == \E d \in 1 .. 10 : Digits[d] = ch

DigitValue(ch) == (CHOOSE d \in 1 .. 10 : Digits[d] = ch) - 1

\* The value of the digits str starts with, after acc.
RECURSIVE DigitRun(_, _)
DigitRun(str, acc) ==
    IF str = <<>> \/ ~IsDigit(Head(str)) THEN acc
    ELSE DigitRun(Tail(str), 10 * acc + DigitValue(Head(str)))

\* str without its leading white space.
RECURSIVE SkipSpace(_)
SkipSpace(str) ==
    IF str # <<>> /\ Head(str) = " " THEN SkipSpace(Tail(str)) ELSE str

\* std::stoi: white space, an optional sign, digits; what follows the
\* digits is ignored; no digit at all throws std::invalid_argument.
stoi(str) ==
    LET s1 == SkipSpace(str)
        signed == s1 # <<>> /\ Head(s1) \in {"-", "+"}
        s2 == IF signed THEN Tail(s1) ELSE s1
    IN  IF s2 = <<>> \/ ~IsDigit(Head(s2))
        THEN [ thrown |-> TRUE, value |-> 0 ]
        ELSE [ thrown |-> FALSE,
               value |-> IF signed /\ Head(s1) = "-"
                         THEN 0 - DigitRun(s2, 0) ELSE DigitRun(s2, 0) ]

HttpOnePrefix == << "H", "T", "T", "P", "/", "1", "." >>

\* HttpContext::processRequestLine(begin, end) on request req: whether the
\* line is a request line, and req as the call leaves it.
processRequestLine(req, line) ==
    LET end == Len(line) + 1
        space == Find(line, 1, end, " ")
        method == setMethod(SubSeq(line, 1, space - 1))
        req1 == IF space # end THEN [ req EXCEPT !.method = method ] ELSE req
        start == space + 1
        space2 == Find(line, start, end, " ")
        argumentStart == Find(line, start, space2, "?")
        req2 == IF argumentStart # space2
                THEN [ req1 EXCEPT
                         !.path = SubSeq(line, start, argumentStart - 1),
                         !.query = setQueryParameters(@,
                                      SubSeq(line, argumentStart + 1, space2 - 1)) ]
                ELSE [ req1 EXCEPT !.path = SubSeq(line, start, space2 - 1) ]
        vstart == space2 + 1
        prefixOk == end - vstart = 8
                    /\ SubSeq(line, vstart, end - 2) = HttpOnePrefix
    IN  IF space = end \/ method = "kInvalid"
        THEN [ succeed |-> FALSE, request |-> req1 ]
        ELSE IF space2 = end
        THEN [ succeed |-> FALSE, request |-> req1 ]
        ELSE IF ~prefixOk
        THEN [ succeed |-> FALSE, request |-> req2 ]
        ELSE IF line[end - 1] = "1"
        THEN [ succeed |-> TRUE,
               request |-> [ req2 EXCEPT !.version = "HTTP/1.1" ] ]
        ELSE IF line[end - 1] = "0"
        THEN [ succeed |-> TRUE,
               request |-> [ req2 EXCEPT !.version = "HTTP/1.0" ] ]
        ELSE [ succeed |-> FALSE, request |-> req2 ]

\* ---- parseRequest --------------------------------------------------------
\* One pass of parseRequest's loop works on a record of the object's state_
\* and request_, the buffer's readable bytes, the locals hasMore and ok, and
\* how the pass leaves the function: "none" (it goes on to the loop test),
\* "true" (the `return true` inside the loop) or "throw" (an exception).

\* Mutant of IncompleteLine: the partial line is retrieved from the buffer.
IncompleteLineDropped(s) == [ s EXCEPT !.hasMore = FALSE, !.buf = <<>> ]

\* No complete line is buffered: hasMore = false, wait for more data.
IncompleteLine(s) == [ s EXCEPT !.hasMore = FALSE ]

\* Mutant of MissingContentLength: the request is taken to have no body.
MissingContentLengthAccepted(s) ==
    [ s EXCEPT !.state = "kGotAll", !.hasMore = FALSE ]

\* POST/PUT without Content-Length: ok = false, hasMore = false.
MissingContentLength(s) == [ s EXCEPT !.ok = FALSE, !.hasMore = FALSE ]

\* Mutant of MethodHasBody: every method is taken to carry a body.
MethodHasBodyAlways(req) == TRUE

\* The test `method() == kPost || method() == kPut`.
MethodHasBody(req) == req.method \in {"kPost", "kPut"}

\* Mutant of HasBody: a Content-Length header always announces a body.
HasBodyAlways(req) == TRUE

\* The test `request_.contentLength() > 0`.
HasBody(req) == req.contentLength > 0

\* Mutant of MalformedHeader: the parse starts over at the request line.
MalformedHeaderRestarts(s) ==
    [ s EXCEPT !.ok = FALSE, !.hasMore = FALSE,
               !.state = "kExpectRequestLine" ]

\* A header line with no colon that is not empty: ok = false.
MalformedHeader(s) == [ s EXCEPT !.ok = FALSE, !.hasMore = FALSE ]

\* The branch state_ == kExpectRequestLine.
ExpectRequestLine(s) ==
    LET crlf == findCRLF(s.buf)
        r == processRequestLine(s.request, SubSeq(s.buf, 1, crlf - 1))
    IN  IF crlf # 0
        THEN IF r.succeed
             THEN [ s EXCEPT !.ok = TRUE,
                             !.request = [ r.request EXCEPT
                                             !.receiveTime = "receiveTime" ],
                             !.buf = retrieveUntil(s.buf, crlf + 2),
                             !.state = "kExpectHeaders" ]
             ELSE [ s EXCEPT !.ok = FALSE, !.request = r.request,
                             !.hasMore = FALSE ]
        ELSE IncompleteLine(s)

\* The empty line that ends the headers: is a body to be read?
EndOfHeaders(s) ==
    LET contentLength == getHeader(s.request, ContentLengthName)
        n == stoi(contentLength)
        req == setContentLength(s.request, n.value)
    IN  IF MethodHasBody(s.request)
        THEN IF contentLength # <<>>
             THEN IF n.thrown
                  THEN [ s EXCEPT !.exit = "throw" ]
                  ELSE IF HasBody(req)
                  THEN [ s EXCEPT !.request = req, !.state = "kExpectBody" ]
                  ELSE [ s EXCEPT !.request = req, !.state = "kGotAll",
                                  !.hasMore = FALSE ]
             ELSE MissingContentLength(s)
        ELSE [ s EXCEPT !.state = "kGotAll", !.hasMore = FALSE ]

\* The branch state_ == kExpectHeaders. The line is retrieved whatever it
\* was; an exception leaves before that.
ExpectHeaders(s) ==
    LET crlf == findCRLF(s.buf)
        colon == Find(s.buf, 1, crlf, ":")
        s1 == IF colon < crlf
              THEN [ s EXCEPT !.request =
                       addHeader(@, SubSeq(s.buf, 1, crlf - 1), colon) ]
              ELSE IF crlf = 1 THEN EndOfHeaders(s)
              ELSE MalformedHeader(s)
    IN  IF crlf # 0
        THEN IF s1.exit = "throw" THEN s1
             ELSE [ s1 EXCEPT !.buf = retrieveUntil(s.buf, crlf + 2) ]
        ELSE IncompleteLine(s)

\* Mutant of ExpectBody: the body is every byte the buffer holds.
ExpectBodyTakesAll(s) ==
    IF Len(s.buf) < s.request.contentLength
    THEN [ s EXCEPT !.hasMore = FALSE, !.exit = "true" ]
    ELSE [ s EXCEPT !.request.body = s.buf,
                    !.buf = <<>>,
                    !.state = "kGotAll",
                    !.hasMore = FALSE ]

\* Mutant of ExpectBody: the body is taken without waiting for all of it.
ExpectBodyTakesShort(s) ==
    LET n == Min({Len(s.buf), s.request.contentLength})
    IN  [ s EXCEPT !.request.body = SubSeq(s.buf, 1, n),
                   !.buf = retrieveUntil(s.buf, n + 1),
                   !.state = "kGotAll",
                   !.hasMore = FALSE ]

\* The branch state_ == kExpectBody.
ExpectBody(s) ==
    IF Len(s.buf) < s.request.contentLength
    THEN [ s EXCEPT !.hasMore = FALSE, !.exit = "true" ]
    ELSE [ s EXCEPT !.request.body = SubSeq(s.buf, 1, s.request.contentLength),
                    !.buf = retrieveUntil(s.buf, s.request.contentLength + 1),
                    !.state = "kGotAll",
                    !.hasMore = FALSE ]

\* One pass of `while (hasMore)`: no branch is for kGotAll.
LoopBody(s) ==
    CASE s.state = "kExpectRequestLine" -> ExpectRequestLine(s)
      [] s.state = "kExpectHeaders" -> ExpectHeaders(s)
      [] s.state = "kExpectBody" -> ExpectBody(s)
      [] OTHER -> s

\* parseRequest's loop run to the end of the call, in at most `passes` passes.
RECURSIVE RunLoop(_, _)
RunLoop(s, passes) ==
    IF passes = 0 \/ s.exit # "none" \/ ~s.hasMore THEN s
    ELSE RunLoop(LoopBody(s), passes - 1)

\* One parseRequest call on a new HttpContext with all of msg buffered.
ParseWhole(msg) ==
    RunLoop([ state |-> "kExpectRequestLine", request |-> NewRequest,
              buf |-> msg, hasMore |-> TRUE, ok |-> TRUE, exit |-> "none" ],
            CountCRLF(msg) + 2)

\* ---- the streams a connection delivers ----------------------------------
\* Most header lines between the request line and the empty line.
MaxHeaders == 1

RequestLines == {
    << "G", "E", "T", " ", "/", "a", "?", "x", "=", "1", " ", "H", "T", "T",
       "P", "/", "1", ".", "1" >>,
    << "P", "O", "S", "T", " ", "/", "a", " ", "H", "T", "T", "P", "/", "1",
       ".", "0" >>,
    << "P", "U", "T", " ", "/", "a", " ", "H", "T", "T", "P", "/", "1", ".",
       "1" >>,
    << "G", "E", "T", " ", "/", "a", " ", "H", "T", "T", "P", "/", "1", ".",
       "2" >>,
    << "G", "O", "T", " ", "/", "a", " ", "H", "T", "T", "P", "/", "1", ".",
       "1" >>
    }

HeaderLines == {
    << "H", "o", "s", "t", ":", " ", "h" >>,
    << "C", "o", "n", "t", "e", "n", "t", "-", "L", "e", "n", "g", "t", "h",
       ":", " ", "2" >>,
    << "C", "o", "n", "t", "e", "n", "t", "-", "L", "e", "n", "g", "t", "h",
       ":", " ", "0" >>,
    << "C", "o", "n", "t", "e", "n", "t", "-", "L", "e", "n", "g", "t", "h",
       ":", " ", "x" >>,
    << "C", "o", "n", "t", "e", "n", "t", "-", "L", "e", "n", "g", "t", "h",
       ":", "-", "1" >>,
    << "b", "a", "d" >>
    }

\* What follows the empty line that ends the headers.
Tails == {
    << >>,
    << "a", "b", "c" >>,
    << "H", "o", "s", "t", ":", " ", "h", CR, LF, CR, LF >>
    }

\* Every sequence of at most n header lines, each with its "\r\n".
RECURSIVE HeaderBlocks(_)
HeaderBlocks(n) ==
    IF n = 0 THEN { <<>> }
    ELSE HeaderBlocks(n - 1)
         \cup { h \o CRLF \o rest : h \in HeaderLines,
                                     rest \in HeaderBlocks(n - 1) }

\* A request line, header lines, the empty line, a tail.
Streams ==
    { r \o CRLF \o hs \o CRLF \o t :
        r \in RequestLines, hs \in HeaderBlocks(MaxHeaders), t \in Tails }

\* ---- the parser's actions ------------------------------------------------
\* The network layer appends the next n bytes of the stream to the buffer
\* and calls parseRequest(buf, receiveTime). n = 0 is a call with no new
\* byte. No call follows one that left by an exception.
Feed(n) ==
    /\ ~running
    /\ ret # "exception"
    /\ n \in 0 .. Len(wire)
    /\ buf' = buf \o SubSeq(wire, 1, n)
    /\ wire' = SubSeq(wire, n + 1, Len(wire))
    /\ sent' = sent \o SubSeq(wire, 1, n)
    /\ cut' = (cut \/ (/\ 0 < n
                       /\ n < Len(wire)
                       /\ wire[n] = CR
                       /\ wire[n + 1] = LF))
    /\ running' = TRUE
    /\ hasMore' = TRUE
    /\ ok' = TRUE
    /\ ret' = "none"
    /\ iters' = 0
    /\ callLines' = CountCRLF(buf')
    /\ callState' = state_
    /\ UNCHANGED << state_, request_, failed >>
    /\ UNCHANGED poolVars

\* The loop test `while (hasMore)` found true and one pass of the loop, up
\* to the return if the pass ends the call. A call consumes a line in
\* every pass but its last: the guard lets a call run one pass past that.
ParseStep ==
    /\ running
    /\ iters <= callLines + 1
    /\ LET s == LoopBody([ state |-> state_, request |-> request_,
                           buf |-> buf, hasMore |-> hasMore, ok |-> ok,
                           exit |-> "none" ])
       IN  /\ state_' = s.state
           /\ request_' = s.request
           /\ buf' = s.buf
           /\ hasMore' = s.hasMore
           /\ ok' = s.ok
           /\ iters' = iters + 1
           /\ running' = (s.exit = "none" /\ s.hasMore)
           /\ ret' = CASE s.exit = "true" -> "true"
                       [] s.exit = "throw" -> "exception"
                       [] s.hasMore -> "none"
                       [] OTHER -> IF s.ok THEN "true" ELSE "false"
           /\ failed' = (failed \/ (s.exit = "none" /\ ~s.hasMore /\ ~s.ok))
           /\ callState' = IF s.exit = "none" /\ s.hasMore
                            THEN callState ELSE "none"
    /\ UNCHANGED << wire, sent, callLines, cut >>
    /\ UNCHANGED poolVars

\* An HttpContext as constructed, on a connection that will deliver w.
ParserInit(w) ==
    /\ state_ = "kExpectRequestLine"
    /\ request_ = NewRequest
    /\ buf = <<>>
    /\ wire = w
    /\ sent = <<>>
    /\ running = FALSE
    /\ hasMore = TRUE
    /\ ok = TRUE
    /\ ret = "none"
    /\ iters = 0
    /\ callLines = 0
    /\ callState = "none"
    /\ failed = FALSE
    /\ cut = FALSE

ParserNext ==
    \/ \E n \in 0 .. Len(wire) : Feed(n)
    \/ ParseStep

\* ============================================================ specifications
\* The pool, its callers making any number of calls.
Init == PoolInit(0 - 1) /\ ParserInit(<<>>)

Next == PoolNext

Spec == Init /\ [][Next]_vars

\* The parser on one connection, for every stream and every way of
\* delivering it.
ParserSpecInit == PoolInit(0 - 1) /\ \E w \in Streams : ParserInit(w)

ParserSpec == ParserSpecInit /\ [][ParserNext]_vars

\* The pool after construction, each worker making MaxCalls calls of
\* getConnection. Every worker thread that can take a step keeps being
\* scheduled, and a thread that asks for mutex_ gets it at some release
\* (strong fairness of the workers' steps, which covers their lock steps);
\* the checker thread keeps running and an init call that has the lock
\* finishes. Nothing makes a cv_.wait return spuriously, or an init call
\* happen.
LiveInit == PoolInit(MaxCalls) /\ ParserInit(<<>>)

LiveSpec ==
    /\ LiveInit
    /\ [][Next]_vars
    /\ \A t \in Workers : SF_vars(WorkerStep(t))
    /\ WF_vars(CheckerStep)
    /\ \A t \in InitCallers : WF_vars(InitBody(t))

\* ============================================================ the pool's claims
\* What a worker holds: the connection its call has popped, or its lease's.
Held(t) == conn[t] \cup lease[t]

\* The workers that hold a lease.
Leased == { t \in Workers : lease[t] # {} }

\* The workers whose getConnection call has popped a connection.
Acquiring == { t \in Workers : conn[t] # {} }

\* How often connection c is in the idle queue.
InQueue(c) ==
    Cardinality({ i \in 1 .. Len(connections_) : connections_[i] = c })

\* How many workers hold connection c.
Holders(c) ==
    Cardinality({ t \in Workers : c \in conn[t] })
    + Cardinality({ t \in Workers : c \in lease[t] })

C1_Exclusive ==
    /\ Cardinality(Leased) <= Cardinality(created)
    /\ \A t \in Workers : conn[t] \cap lease[t] = {}
    /\ \A t, u \in Workers : t # u => Held(t) \cap Held(u) = {}

C1_ObtainedByPop ==
    \A t \in Workers :
      /\ (conn'[t] # {} /\ conn'[t] # conn[t]) =>
           /\ mutex_ = {t}
           /\ connections_ # <<>>
           /\ conn'[t] = {Head(connections_)}
           /\ connections_' = Tail(connections_)
      /\ (lease'[t] # {} /\ lease'[t] # lease[t]) =>
           /\ conn[t] # {}
           /\ lease'[t] = conn[t]

\* C1: at most K leases are outstanding (K the number of connections init
\* made), no connection is held by two workers (as a lease or as the
\* connection an acquire in progress has popped), and a worker comes to hold
\* a connection only by popping the front of a non-empty queue under the
\* lock, a lease only from the connection it popped.
C1_LeasesExclusive == [](C1_Exclusive) /\ [][C1_ObtainedByPop]_vars

\* Every connection is leased and a worker that was woken from cv_.wait is
\* re-checking the (empty) queue.
C1_Witness ==
    /\ created # {}
    /\ Cardinality(Leased) = Cardinality(created)
    /\ \E t \in Workers : pc[t] = "gc_loop" /\ waited[t]

\* C2: every connection init made is in exactly one place, once in the idle
\* queue or held by one worker, and nothing else is in the queue or held:
\* idle + held = K.
C2_Conserved ==
    /\ \A c \in created : InQueue(c) + Holders(c) = 1
    /\ Range(connections_) \subseteq created
    /\ \A t \in Workers : Held(t) \subseteq created
    /\ Len(connections_) + Cardinality(Acquiring) + Cardinality(Leased)
         = Cardinality(created)

\* A worker's acquire has failed, another holds a lease, and the checker has
\* completed a cycle.
C2_Witness ==
    /\ \E t, u \in Workers : result[t] = "IoError" /\ lease[u] # {}
    /\ pc[Checker] = "ck_sleep60"

C3_CatchStep ==
    \A t \in Workers :
      (pc[t] = "gc_catch" /\ pc'[t] # "gc_catch") =>
        /\ \E c \in conn[t] : connections_' = Append(connections_, c)
        /\ pc'[t] = "idle"
        /\ result'[t] = "IoError"
        /\ lease'[t] = {}
        /\ conn'[t] = {}
        /\ mutex_' = {}
        /\ LET waiters == { w \in Workers : pc[w] = "gc_wait" }
           IN  waiters # {} =>
                 Cardinality({ w \in waiters : pc'[w] = "gc_relock" }) = 1

C3_Quiescent ==
    (\A t \in Workers : pc[t] = "idle" /\ lease[t] = {}) =>
      /\ Len(connections_) = Cardinality(created)
      /\ Range(connections_) = created

\* C3: the catch block pushes the popped connection back, wakes one waiter,
\* unlocks and ends the call with the error and without a lease; and
\* whenever no worker is in a call or holds a lease, the queue holds all K
\* connections.
C3_FailedAcquireReturns == [][C3_CatchStep]_vars /\ [](C3_Quiescent)

\* After a failed acquire every worker is idle without a lease and the
\* queue is full again.
C3_Witness ==
    /\ created # {}
    /\ \E t \in Workers : result[t] = "IoError"
    /\ \A t \in Workers : pc[t] = "idle" /\ lease[t] = {}
    /\ Len(connections_) = Cardinality(created)

\* A worker is blocked in getConnection: in cv_.wait, or woken and waiting
\* for mutex_.
Blocked(t) == pc[t] \in {"gc_wait", "gc_relock"}

C4_Returned == connections_ # <<>> /\ \E t \in Workers : Blocked(t)

C4_Obtained == \E t \in Workers : pc[t] = "gc_ping" /\ waited[t]

\* C4: whenever a connection is in the idle queue while a worker is blocked
\* in getConnection, a worker that has been blocked comes to hold a
\* connection.
C4_NoLostWakeup == C4_Returned ~> C4_Obtained

\* A connection is back in the queue, one worker woken and another still in
\* cv_.wait, the checker in its cycle.
C4_Witness ==
    /\ connections_ # <<>>
    /\ \E t, u \in Workers : pc[t] = "gc_relock" /\ pc[u] = "gc_wait"
    /\ pc[Checker] = "ck_ping"

C5_WhileUninitialized ==
    ~initialized_ =>
      /\ connections_ = <<>>
      /\ \A t \in Workers :
           pc[t] \in {"idle", "gc_loop"} /\ conn[t] = {} /\ lease[t] = {}

C5_ThrowStep ==
    \A t \in Workers :
      (pc[t] = "gc_loop" /\ ~initialized_) =>
        /\ pc'[t] \in {"gc_loop", "idle"}
        /\ connections_' = connections_
        /\ initialized_' = initialized_
        /\ conn'[t] = {}
        /\ lease'[t] = {}
        /\ pc'[t] = "idle" => (result'[t] = "NotInitialized" /\ mutex_' = {})

\* C5: getConnection on a pool that is not initialized ends with the
\* NotInitialized error: the worker goes from the loop test straight back
\* to its caller, never into cv_.wait or to the ping, with the queue and
\* initialized_ as they were.
C5_NotInitializedFails ==
    [](C5_WhileUninitialized) /\ [][C5_ThrowStep]_vars

\* A call has ended with the NotInitialized error on the uninitialized pool.
C5_Witness ==
    /\ ~initialized_
    /\ \E t \in Workers : pc[t] = "idle" /\ result[t] = "NotInitialized"

C6_InitStep ==
    /\ initialized_ =>
         initialized_' /\ config_' = config_ /\ created' = created
    /\ (~initialized_ /\ initialized_') =>
         \E t \in InitCallers :
           /\ pc[t] = "init_body"
           /\ config_' = args[t].cred
           /\ Cardinality(created') = args[t].poolSize
           /\ Len(connections_') = args[t].poolSize
    /\ (~initialized_ /\ ~initialized_') =>
         config_' = config_ /\ created' = created

\* C6: the call of init that finds the pool uninitialized sets the
\* credentials to its arguments and makes poolSize connections; from then
\* on no step changes the credentials, the flag or the set of connections.
C6_InitOnce == [][C6_InitStep]_vars

\* A later init call with other arguments holds the lock on the
\* initialized pool.
C6_Witness ==
    /\ initialized_
    /\ \E t \in InitCallers :
         /\ pc[t] = "init_body"
         /\ args[t].cred # config_
         /\ args[t].poolSize # Cardinality(created)

\* ============================================================ the parser's claims
\* msg is a valid GET request with no body: one call on all of it returns
\* true, completes a GET request and leaves nothing in the buffer.
ValidGet(msg) ==
    LET whole == ParseWhole(msg)
    IN  /\ whole.exit = "none"
        /\ whole.ok
        /\ whole.state = "kGotAll"
        /\ whole.request.method = "kGet"
        /\ whole.buf = <<>>

\* C7: for a valid GET request, however it is cut into deliveries: every
\* call that has returned, returned true; once the parser is in kGotAll,
\* and at the latest when the call on the last bytes has returned, the
\* request (method, path, query, version, headers) is the one a single call
\* on the whole message builds.
C7_FragmentationIndependent ==
    ValidGet(sent \o wire) =>
      /\ ret \in {"none", "true"}
      /\ state_ = "kGotAll" => request_ = ParseWhole(sent \o wire).request
      /\ (wire = <<>> /\ ~running) => (state_ = "kGotAll" /\ buf = <<>>)

\* A valid GET request with a query and a header was delivered in pieces,
\* one of them ending between a CR and its LF, and is complete.
C7_Witness ==
    /\ ValidGet(sent)
    /\ wire = <<>>
    /\ ~running
    /\ cut
    /\ state_ = "kGotAll"
    /\ request_.headers # <<>>
    /\ request_.query # <<>>

\* C8: every parseRequest call returns. A pass of the loop that does not
\* end the call retrieves a line, so a call that began with n lines
\* buffered is in its loop for at most n + 1 passes.
C8_FeedReturns == running => iters <= callLines + 1

\* C9: once a call has returned false, the parser never gets to kGotAll.
C9_FailureIsTerminal == failed => state_ # "kGotAll"

C10_EmptyLineStep ==
    ( /\ running
      /\ state_ = "kExpectHeaders"
      /\ request_.method \in {"kPost", "kPut"}
      /\ ContentLengthName \notin DOMAIN request_.headers
      /\ Len(buf) >= 2
      /\ buf[1] = CR
      /\ buf[2] = LF ) =>
        /\ ~running'
        /\ ret' = "false"
        /\ state_' = "kExpectHeaders"
        /\ buf' = SubSeq(buf, 3, Len(buf))

\* C10: for POST and PUT, the pass of the loop that finds the empty line
\* with no Content-Length header added ends the call with false, retrieves
\* the empty line and leaves state_ at kExpectHeaders.
C10_MissingContentLengthFails == [][C10_EmptyLineStep]_vars

\* A POST request with one header, not Content-Length: the call that had
\* only the empty line left to read has returned false.
C10_Witness ==
    /\ ~running
    /\ ret = "false"
    /\ request_.method = "kPost"
    /\ request_.headers # <<>>
    /\ ContentLengthName \notin DOMAIN request_.headers
    /\ state_ = "kExpectHeaders"
    /\ callLines = 1
    /\ iters = 1
    /\ buf = <<>>
    /\ Len(sent) >= 4
    /\ SubSeq(sent, Len(sent) - 3, Len(sent)) = CRLF \o CRLF

\* The buffer begins with the empty line that ends the headers.
AtEmptyLine == Len(buf) >= 2 /\ buf[1] = CR /\ buf[2] = LF

\* The buffer without that line.
AfterEmptyLine == SubSeq(buf, 3, Len(buf))

C11_Waiting ==
    (~running /\ state_ = "kExpectBody") =>
        /\ request_.contentLength > 0
        /\ Len(buf) < request_.contentLength

C11_BodyStep ==
    (running /\ state_ = "kExpectBody") =>
        LET n == request_.contentLength
        IN  /\ ~running'
            /\ ret' = "true"
            /\ IF Len(buf) < n
               THEN /\ state_' = "kExpectBody"
                    /\ buf' = buf
                    /\ request_' = request_
               ELSE /\ state_' = "kGotAll"
                    /\ request_' = [ request_ EXCEPT !.body = SubSeq(buf, 1, n) ]
                    /\ buf' = SubSeq(buf, n + 1, Len(buf))

\* C11: in kExpectBody with content length n > 0, a call that finds fewer
\* than n bytes buffered returns true, stays in kExpectBody and retrieves
\* nothing; a call that finds n bytes or more takes exactly the first n as
\* the body, leaves the rest buffered, goes to kGotAll and returns true;
\* between calls a parser in kExpectBody has fewer than n bytes buffered,
\* so the first call with n bytes buffered is the one that completes.
C11_BodyByLength == [](C11_Waiting) /\ [][C11_BodyStep]_vars

\* A call that began in kExpectBody with one byte of a two-byte body
\* buffered has returned true and left the byte where it was.
C11_Witness ==
    /\ ~running
    /\ state_ = "kExpectBody"
    /\ request_.method = "kPost"
    /\ request_.contentLength = 2
    /\ buf = << "a" >>
    /\ ret = "true"
    /\ iters = 1
    /\ callLines = 0

\* A pass of the loop is about to read the empty line of a POST or PUT
\* request whose Content-Length header stoi reads as v.
PostEmptyLine(v) ==
    /\ running
    /\ state_ = "kExpectHeaders"
    /\ request_.method \in {"kPost", "kPut"}
    /\ AtEmptyLine
    /\ getHeader(request_, ContentLengthName) # <<>>
    /\ ~stoi(getHeader(request_, ContentLengthName)).thrown
    /\ stoi(getHeader(request_, ContentLengthName)).value = v

C12_ZeroStep ==
    PostEmptyLine(0) =>
        /\ ~running'
        /\ ret' = "true"
        /\ state_' = "kGotAll"
        /\ request_'.body = <<>>
        /\ request_'.contentLength = 0
        /\ buf' = AfterEmptyLine

\* C12: for POST and PUT with a Content-Length header of value 0, the pass
\* of the loop that reads the empty line goes from kExpectHeaders straight
\* to kGotAll, the body empty, retrieves the empty line only, and ends the
\* call, which returns true.
C12_ZeroLengthCompletes == [][C12_ZeroStep]_vars

\* A PUT request with Content-Length 0 is complete, its body empty, and the
\* bytes that came after the empty line are still buffered.
C12_Witness ==
    /\ ~running
    /\ ret = "true"
    /\ state_ = "kGotAll"
    /\ request_.method = "kPut"
    /\ getHeader(request_, ContentLengthName) = << " ", "0" >>
    /\ request_.body = <<>>
    /\ buf = << "a", "b", "c" >>

C19_EmptyLineStep ==
    ( /\ running
      /\ state_ = "kExpectHeaders"
      /\ request_.method \notin {"kPost", "kPut"}
      /\ AtEmptyLine ) =>
        /\ ~running'
        /\ state_' = "kGotAll"
        /\ request_' = request_
        /\ request_'.body = <<>>
        /\ buf' = AfterEmptyLine

C19_NoBodyState == state_ = "kExpectBody" => request_.method \in {"kPost", "kPut"}

\* C19: for a method other than POST and PUT, the pass of the loop that
\* reads the empty line goes to kGotAll whatever headers were added, leaves
\* the request with its empty body, retrieves the empty line only and ends
\* the call; the parser is never in kExpectBody for such a request.
C19_OtherMethodsComplete == [](C19_NoBodyState) /\ [][C19_EmptyLineStep]_vars

\* A GET request with the header Content-Length: 2 is complete, its body
\* empty, and the three bytes after the empty line are still buffered.
C19_Witness ==
    /\ ~running
    /\ state_ = "kGotAll"
    /\ request_.method = "kGet"
    /\ getHeader(request_, ContentLengthName) = << " ", "2" >>
    /\ request_.contentLength = 0
    /\ request_.body = <<>>
    /\ buf = << "a", "b", "c" >>
    /\ wire = <<>>

\* The order of the parser's states.
StateRank(st) ==
    CASE st = "kExpectRequestLine" -> 1
      [] st = "kExpectHeaders" -> 2
      [] st = "kExpectBody" -> 3
      [] st = "kGotAll" -> 4

\* A step changes state_ only along kExpectRequestLine -> kExpectHeaders ->
\* (kExpectBody ->) kGotAll, and to kExpectBody only for POST or PUT with a
\* content length above 0.
C20_Forward ==
    /\ StateRank(state_') >= StateRank(state_)
    /\ state_' # state_ =>
          << state_, state_' >> \in
            { << "kExpectRequestLine", "kExpectHeaders" >>,
              << "kExpectHeaders", "kExpectBody" >>,
              << "kExpectHeaders", "kGotAll" >>,
              << "kExpectBody", "kGotAll" >> }
    /\ (state_' = "kExpectBody" /\ state_ # "kExpectBody") =>
          /\ request_'.method \in {"kPost", "kPut"}
          /\ request_'.contentLength > 0

\* A call that returns false returns with state_ as it was when the call began.
C20_FalseKeepsCallState ==
    (running /\ ~running' /\ ret' = "false") => state_' = callState

\* The pass of the loop that makes a call return false leaves state_ as
\* the pass found it.
C20_FailingPassKeepsState ==
    (running /\ ~running' /\ ret' = "false") => state_' = state_

\* C20 as stated: state_ only moves forward, to kExpectBody only for POST
\* or PUT with a content length above 0, and a call that returns false
\* leaves state_ where it was when the call began.
C20_StateOnlyForward == [][C20_Forward /\ C20_FalseKeepsCallState]_vars

\* C20 as amended: state_ only moves forward, to kExpectBody only for POST
\* or PUT with a content length above 0, and the pass of the loop that
\* makes a call return false leaves state_ where that pass found it (the
\* passes of the same call before it may have moved state_ forward).
C20_StateOnlyForwardByPass == [][C20_Forward /\ C20_FailingPassKeepsState]_vars

\* A call has read the request line and then a header line with no colon:
\* it has returned false from kExpectHeaders, in its second pass.
C20_Witness ==
    /\ ~running
    /\ ret = "false"
    /\ state_ = "kExpectHeaders"
    /\ iters = 2
    /\ request_.method = "kGet"
    /\ request_.headers = <<>>

\* ================================================= the pool's locking claims
\* Thread t is inside ping() or reconnect().
InIo(t) ==
    IF t = Checker THEN pc[t] \in {"ck_ping", "ck_reconnect"}
    ELSE pc[t] \in {"gc_ping", "gc_reconnect"}

\* The checker thread is inside sleep_for.
CheckerSleeps == pc[Checker] \in {"ck_sleep1", "ck_sleep60", "ck_sleep5"}

\* C14: a thread that is inside ping or reconnect, in getConnection or in
\* checkConnections, does not hold mutex_.
C14_NoIoUnderLock ==
    \A t \in Workers \cup {Checker} : InIo(t) => t \notin mutex_

\* A worker is in reconnect and the checker in ping while another worker,
\* in getConnection, holds mutex_.
C14_Witness ==
    /\ InIo(Checker)
    /\ \E t, u \in Workers :
         /\ pc[t] = "gc_reconnect"
         /\ pc[u] = "gc_loop"
         /\ mutex_ = {u}

\* C15: the checker thread does not hold mutex_ while it sleeps.
C15_NoSleepUnderLock == CheckerSleeps => Checker \notin mutex_

\* C16: the connection the checker is pinging or reconnecting is held by no
\* worker, neither as the connection a getConnection call has popped nor as
\* a lease.
C16_ChecksOnlyIdle ==
    (InIo(Checker) /\ connsToCheck # <<>>) =>
        \A t \in Workers : Head(connsToCheck) \notin Held(t)

C17_ReleaseStep ==
    \A t \in Workers :
      (pc[t] = "rel_body" /\ pc'[t] # "rel_body") =>
        /\ mutex_ = {t}
        /\ \E c \in lease[t] : connections_' = Append(connections_, c)
        /\ Len(connections_') = Len(connections_) + 1
        /\ lease'[t] = {}
        /\ mutex_' = {}
        /\ LET waiters == { w \in Workers : pc[w] = "gc_wait" }
               woken == { w \in waiters : pc'[w] # "gc_wait" }
           IN  /\ Cardinality(woken) <= 1
               /\ waiters # {} => Cardinality(woken) = 1
               /\ \A w \in woken : pc'[w] = "gc_relock"

\* C17: the deleter, under the lock, appends the lease's connection to the
\* queue, whose length grows by exactly 1, and its notify_one takes one
\* thread out of cv_.wait if any is there, never more than one.
C17_ReleaseNotifiesOne == [][C17_ReleaseStep]_vars

\* A lease was released while two workers were in cv_.wait: the connection
\* is in the queue, one of the two is woken, the other still waits.
C17_Witness ==
    /\ connections_ # <<>>
    /\ mutex_ = {}
    /\ \E t, u, v \in Workers :
         /\ pc[t] = "idle" /\ result[t] = "lease" /\ lease[t] = {}
         /\ pc[u] = "gc_relock"
         /\ pc[v] = "gc_wait"

\* A step of the checker thread.
CheckerMoves == pc'[Checker] # pc[Checker] \/ connsToCheck' # connsToCheck

C18_CycleStep ==
    /\ pc'[Checker] \in { "ck_lock", "ck_locked", "ck_sleep1", "ck_ping",
                          "ck_reconnect", "ck_sleep60", "ck_sleep5" }
    /\ CheckerMoves =>
         /\ connections_' = connections_
         /\ \A t \in Workers : result'[t] = result[t]
         /\ CASE pc[Checker] = "ck_lock" -> pc'[Checker] = "ck_locked"
              [] pc[Checker] = "ck_locked" ->
                   pc'[Checker] = IF connections_ = <<>>
                                  THEN "ck_sleep1" ELSE "ck_ping"
              [] pc[Checker] = "ck_ping" ->
                   pc'[Checker] \in
                     { "ck_reconnect", "ck_sleep5",
                       IF Len(connsToCheck) > 1 THEN "ck_ping" ELSE "ck_sleep60" }
              [] pc[Checker] = "ck_reconnect" ->
                   pc'[Checker] =
                       IF Len(connsToCheck) > 1 THEN "ck_ping" ELSE "ck_sleep60"
              [] OTHER -> pc'[Checker] = "ck_lock"

\* C18: the checker thread is always in its loop. Whatever ping and
\* reconnect do, its steps leave the queue and the workers' results alone
\* and follow the cycle: 1 second of sleep when the queue was empty, a ping
\* for each connection of the snapshot, a reconnect after a ping that
\* returned false (its exception is caught inside the cycle), 60 seconds
\* of sleep after the last connection, 5 seconds after an exception of
\* ping; and from everywhere in a cycle the thread comes to the top of the
\* next one.
C18_CheckerNeverStops ==
    /\ [][C18_CycleStep]_vars
    /\ (pc[Checker] # "ck_lock") ~> (pc[Checker] = "ck_lock")

\* The checker sleeps its 5 seconds after an exception of ping, with a
\* worker holding a lease.
C18_Witness ==
    /\ pc[Checker] = "ck_sleep5"
    /\ connsToCheck = <<>>
    /\ connections_ = <<>>
    /\ \E t \in Workers : lease[t] # {}

====
